---------------------------- MODULE Spec2Model ----------------------------
(***************************************************************************)
(* Model of internal/multiplex/obfs.go (Cloak): the frame obfuscation      *)
(* codec.  GenerateObfs builds an Obfuscator, whose Obfs closure encodes a *)
(* Frame into a caller buffer and whose Deobfs closure decodes wire bytes. *)
(*                                                                         *)
(* Bytes are the integers 0..255, a Go slice is a sequence, s[lo:hi] is    *)
(* Slice(s, lo, hi).  A uint32 is a pair of 16-bit limbs and a uint64 four *)
(* of them (most significant first), so that the whole range is there.     *)
(*                                                                         *)
(* The three library primitives (salsa20.XORKeyStream, cipher.AEAD.Seal    *)
(* and Open) are not code of the repository.  They are modelled by small   *)
(* deterministic stand-ins that keep the properties the codec relies on:   *)
(* the keystream is a function of (key, nonce) XORed onto the data, Seal   *)
(* appends a 16-byte tag that depends on key, nonce and ciphertext, Open   *)
(* recomputes the tag, rejects on mismatch and decrypts in place.          *)
(***************************************************************************)
EXTENDS Integers, Sequences, FiniteSets, TLC

VARIABLES
    pc,      \* position of the caller: "start", "failed", "ready", "encoded",
             \* "sent", "done"
    obf,     \* the *Obfuscator GenerateObfs returned (ok = FALSE: nil)
    genErr,  \* the error GenerateObfs returned ("nil" when none)
    frame,   \* the Frame handed to the last Obfs call
    enc,     \* the last Obfs call: buffer before, buffer after, n, err
    wire,    \* the bytes on their way to Deobfs
    tamper,  \* what was done to the wire since it was encoded
    dec      \* the last Deobfs call: err, the returned Frame, working copy

vars == <<pc, obf, genErr, frame, enc, wire, tamper, dec>>

----------------------------------------------------------------------------
(* Bounds of the model                                                     *)

\* payload lengths 0..MaxPayloadLen are encoded
MaxPayloadLen == 9
\* a destination buffer has up to MaxSlack bytes beyond usefulLen
MaxSlack == 1
\* injected (not encoded) inputs of Deobfs have lengths 0..rlLen+22+MaxInjectExtra
MaxInjectExtra == 3

----------------------------------------------------------------------------
(* Program constants                                                       *)

HEADER_LEN == 14

E_METHOD_PLAIN == 0
E_METHOD_AES_GCM == 1
E_METHOD_CHACHA20_POLY1305 == 2

\* payloadCipher.Overhead() of both AEADs: the tag length
Overhead == 16

----------------------------------------------------------------------------
(* Bytes, slices, big-endian integers                                      *)

RECURSIVE XorBits(_, _, _)
XorBits(a, b, n) ==
    IF n = 0 THEN 0
    ELSE ((a + b) % 2) + 2 * XorBits(a \div 2, b \div 2, n - 1)

\* a ^ b on bytes
Xor(a, b) == XorBits(a, b, 8)

\* x ^ y on byte slices of one length
XorSeq(x, y) == [i \in 1..Len(x) |-> Xor(x[i], y[i])]

\* F(v) with v evaluated once, as a local variable that is assigned once is
Bind(v, F(_)) == CHOOSE y \in { F(x) : x \in {v} } : TRUE

\* Go's s[lo:hi] is in range
SliceOK(s, lo, hi) == 0 <= lo /\ lo <= hi /\ hi <= Len(s)

\* Go's s[lo:hi]
Slice(s, lo, hi) == SubSeq(s, lo + 1, hi)

\* s with s[at:at+len(part)] overwritten by part (copy into a sub-slice)
Overwrite(s, at, part) ==
    SubSeq(s, 1, at) \o part \o SubSeq(s, at + Len(part) + 1, Len(s))

\* a 16-bit limb as two big-endian bytes
PutU16(v) == <<v \div 256, v % 256>>

\* uint16(x): conversion of an int to 16 bits
Uint16(x) == x % 65536

\* uint8(x): conversion of an int to 8 bits
Uint8(x) == x % 256

putU32(v) == PutU16(v[1]) \o PutU16(v[2])

putU64(v) == PutU16(v[1]) \o PutU16(v[2]) \o PutU16(v[3]) \o PutU16(v[4])

u32(b) == <<b[1] * 256 + b[2], b[3] * 256 + b[4]>>

u64(b) == <<b[1] * 256 + b[2], b[3] * 256 + b[4],
            b[5] * 256 + b[6], b[7] * 256 + b[8]>>

----------------------------------------------------------------------------
(* Library primitives                                                      *)

\* byte i (from 1) of a key, the key repeated when it is short
KeyByte(key, i) == key[((i - 1) % Len(key)) + 1]

RECURSIVE WeightedRange(_, _, _)
\* sum of (2j-1) * s[j] for lo <= j <= hi, modulo 256
WeightedRange(s, lo, hi) ==
    IF lo > hi THEN 0
    ELSE IF lo = hi THEN (((2 * lo - 1) % 256) * s[lo]) % 256
    ELSE LET mid == (lo + hi) \div 2
         IN  (WeightedRange(s, lo, mid) + WeightedRange(s, mid + 1, hi)) % 256

\* sum of (2j-1) * s[j] over the first n bytes, modulo 256; the odd weights
\* make every single-bit change of s change the sum
WeightedSum(s, n) == WeightedRange(s, 1, n)

\* the first n keystream bytes of salsa20 under (nonce, key)
KeyStream(nonce, key, n) ==
    LET mix == WeightedSum(nonce, Len(nonce))
    IN  [i \in 1..n |-> Xor(KeyByte(key, i), (mix * (2 * i + 1) + 7 * i) % 256)]

\* salsa20.XORKeyStream(out, in, nonce, key): the value written to out
XORKeyStream(in, nonce, key) == XorSeq(in, KeyStream(nonce, key, Len(in)))

\* the pad an AEAD encrypts plaintext byte i with
AeadPad(c, nonce, i) ==
    (KeyByte(c.key, i) + nonce[((i - 1) % Len(nonce)) + 1] + 3 * (i % 256)
       + 101 * c.alg) % 256

\* the 16-byte tag of an AEAD over (nonce, body): bytes 1..12 bind the nonce,
\* bytes 13..16 the ciphertext and its length
AeadTag(c, nonce, body) ==
    [j \in 1..Overhead |->
        IF j <= 12 THEN Xor(nonce[j], KeyByte(c.key, j + 5))
        ELSE IF j = 13 THEN Xor(WeightedSum(body, Len(body)), KeyByte(c.key, 1))
        ELSE IF j = 14 THEN (Len(body) + c.alg) % 256
        ELSE IF j = 15 THEN (Len(body) \div 256) % 256
        ELSE Xor(WeightedSum(nonce, Len(nonce)), KeyByte(c.key, 2))]

\* payloadCipher.Seal(nil, nonce, plaintext, nil): ciphertext || tag
Seal(c, nonce, plaintext) ==
    LET body == [i \in 1..Len(plaintext) |->
                    (plaintext[i] + AeadPad(c, nonce, i)) % 256]
    IN  body \o AeadTag(c, nonce, body)

\* payloadCipher.Open(...) returns a nil error
OpenOK(c, nonce, ciphertext) ==
    /\ Len(ciphertext) >= Overhead
    /\ LET body == Slice(ciphertext, 0, Len(ciphertext) - Overhead)
       IN  Slice(ciphertext, Len(body), Len(ciphertext)) = AeadTag(c, nonce, body)

\* the plaintext Open recovers when it succeeds
OpenPlain(c, nonce, ciphertext) ==
    [i \in 1..(Len(ciphertext) - Overhead) |->
        (ciphertext[i] + 256 - AeadPad(c, nonce, i)) % 256]

\* aes.NewCipher accepts the key sizes of AES-128, AES-192 and AES-256
AesKeySizeOK(n) == n \in {16, 24, 32}

\* chacha20poly1305.New accepts a 32-byte key only
ChachaKeySizeOK(n) == n = 32

----------------------------------------------------------------------------
(* GenerateObfs                                                            *)

NoCipher == [alg |-> 0, key |-> <<>>]

NilObf == [ok |-> FALSE, method |-> 0, payloadCipher |-> NoCipher,
           salsaKey |-> <<>>, hasRecordLayer |-> FALSE, sessionKey |-> <<>>]

\* copy(salsaKey[:], sessionKey) into a zeroed [32]byte
CopyKey(sessionKey) ==
    [i \in 1..32 |-> IF i <= Len(sessionKey) THEN sessionKey[i] ELSE 0]

\* the error of the key-size check at the top of GenerateObfs
KeySizeErr(sessionKey) ==
    IF Len(sessionKey) # 32 THEN "sessionKey size must be 32 bytes" ELSE "nil"

\* GenerateObfs(encryptionMethod, sessionKey, hasRecordLayer): <<obfuscator, err>>
GenerateObfs(encryptionMethod, sessionKey, hasRecordLayer) ==
    LET err0 == KeySizeErr(sessionKey)
        built(c) == [ok |-> TRUE, method |-> encryptionMethod, payloadCipher |-> c,
                     salsaKey |-> CopyKey(sessionKey),
                     hasRecordLayer |-> hasRecordLayer, sessionKey |-> sessionKey]
    IN  IF encryptionMethod = E_METHOD_PLAIN
        THEN <<built(NoCipher), err0>>
        ELSE IF encryptionMethod = E_METHOD_AES_GCM
        THEN IF AesKeySizeOK(Len(sessionKey))
             \* err is assigned the nil results of aes.NewCipher and cipher.NewGCM
             THEN <<built([alg |-> E_METHOD_AES_GCM, key |-> sessionKey]), "nil">>
             ELSE <<NilObf, "crypto/aes: invalid key size">>
        ELSE IF encryptionMethod = E_METHOD_CHACHA20_POLY1305
        THEN IF ChachaKeySizeOK(Len(sessionKey))
             THEN <<built([alg |-> E_METHOD_CHACHA20_POLY1305, key |-> sessionKey]), "nil">>
             ELSE <<NilObf, "chacha20poly1305: bad key length">>
        ELSE <<NilObf, "Unknown encryption method">>

----------------------------------------------------------------------------
(* MakeObfs                                                                *)

NoFrame == [StreamID |-> <<0, 0>>, Seq |-> <<0, 0, 0, 0>>, Closing |-> 0,
            Payload |-> <<>>, nil |-> TRUE]

\* rlLen of MakeObfs and MakeDeobfs
RlLen(hasRecordLayer) == IF hasRecordLayer THEN 5 ELSE 0

\* payloadCipher == nil
IsPlain(o) == o.payloadCipher.alg = E_METHOD_PLAIN

\* ExtraLen without the padding of short plain payloads
C8_NoPadding(o, payloadLen) == IF IsPlain(o) THEN 0 ELSE Uint8(Overhead)

\* extraLen of Obfs: padding up to 8 bytes for plain, the tag length for an AEAD
ExtraLen(o, payloadLen) ==
    IF IsPlain(o)
    THEN IF payloadLen < 8 THEN Uint8(8 - payloadLen) ELSE 0
    ELSE Uint8(Overhead)

\* usefulLen of Obfs
UsefulLen(o, payloadLen) ==
    RlLen(o.hasRecordLayer) + HEADER_LEN + payloadLen + ExtraLen(o, payloadLen)

\* the 14 header bytes before obfuscation
PlainHeader(f, extraLen) ==
    putU32(f.StreamID) \o putU64(f.Seq) \o <<f.Closing, extraLen>>

\* AeadNonce as a nonce that does not depend on the header
C5_FixedNonce(header) == [i \in 1..12 |-> 0]

\* header[:12], the nonce both Seal and Open are given
AeadNonce(header) == Slice(header, 0, 12)

\* rand.Read fills n bytes; rnd selects the outcome
RandBytes(rnd, n) == [i \in 1..n |-> (rnd * 83 + i * 59) % 256]

\* encryptedPayloadWithExtra after it is filled
EncryptedPayloadWithExtra(o, f, header, extraLen, rnd) ==
    IF IsPlain(o)
    THEN f.Payload \o RandBytes(rnd, extraLen)
    ELSE Seal(o.payloadCipher, AeadNonce(header), f.Payload)

\* the 5 bytes of the fake TLS record layer for n bytes after it
RecordLayer(n) == <<23, 3, 3>> \o PutU16(Uint16(n))

\* BufferTooSmall, off by one
C6_OffByOne(buf, usefulLen) == Len(buf) < usefulLen - 1

\* the capacity check of Obfs
BufferTooSmall(buf, usefulLen) == Len(buf) < usefulLen

\* Obfs(f, buf): the returned n and err, and buf after the call
Obfs(o, f, buf, rnd) ==
    LET rlLen     == RlLen(o.hasRecordLayer)
        extraLen  == ExtraLen(o, Len(f.Payload))
        usefulLen == UsefulLen(o, Len(f.Payload))
    IN  Bind(PlainHeader(f, extraLen), LAMBDA header :
        Bind(EncryptedPayloadWithExtra(o, f, header, extraLen, rnd), LAMBDA body :
        IF BufferTooSmall(buf, usefulLen)
        THEN [n |-> 0, err |-> "buffer is too small", buf |-> buf, extraLen |-> extraLen]
        ELSE IF ~(SliceOK(buf, 0, usefulLen) /\ SliceOK(body, Len(body) - 8, Len(body)))
        THEN [n |-> 0, err |-> "panic", buf |-> buf, extraLen |-> extraLen]
        ELSE LET nonce  == Slice(body, Len(body) - 8, Len(body))
                 obfsed == XORKeyStream(header, nonce, o.salsaKey)
                 rl     == IF o.hasRecordLayer
                           THEN RecordLayer(HEADER_LEN + Len(body))
                           ELSE <<>>
             IN  [n |-> usefulLen, err |-> "nil",
                  buf |-> Overwrite(buf, 0, rl \o obfsed \o body),
                  extraLen |-> extraLen]))

----------------------------------------------------------------------------
(* MakeDeobfs                                                              *)

\* MinInputLen without the 8 bytes of the nonce
C7_HeaderOnly(rlLen) == rlLen + HEADER_LEN

\* the least input length Deobfs accepts
MinInputLen(rlLen) == rlLen + HEADER_LEN + 8

\* UsefulPayloadLen without the subtraction of extraLen
C1_WholeRegion(pldWithOverHead, extraLen) == Len(pldWithOverHead)

\* usefulPayloadLen of Deobfs
UsefulPayloadLen(pldWithOverHead, extraLen) == Len(pldWithOverHead) - extraLen

\* OpenErr with the error of Open dropped
C3_ErrDropped(o, header, pldWithOverHead) == "nil"

\* err of the Open call in Deobfs, which Deobfs returns when it is not nil
OpenErr(o, header, pldWithOverHead) ==
    IF OpenOK(o.payloadCipher, AeadNonce(header), pldWithOverHead)
    THEN "nil"
    ELSE "cipher: message authentication failed"

DeobfsErr(e, peeled) == [err |-> e, frame |-> NoFrame, peeled |-> peeled, extraLen |-> 0]

\* the tail of Deobfs, from the de-obfuscated header on
DeobfsPayload(o, header, pldWithOverHead) ==
    LET streamID == u32(Slice(header, 0, 4))
        seq      == u64(Slice(header, 4, 12))
        closing  == header[13]
        extraLen == header[14]
        usefulPayloadLen == UsefulPayloadLen(pldWithOverHead, extraLen)
        ret(pld, out) == [err |-> "nil",
                          frame |-> [StreamID |-> streamID, Seq |-> seq,
                                     Closing |-> closing, Payload |-> out,
                                     nil |-> FALSE],
                          peeled |-> header \o pld, extraLen |-> extraLen]
        peeled == header \o pldWithOverHead
    IN  IF usefulPayloadLen < 0
        THEN DeobfsErr("extra length is greater than total pldWithOverHead length", peeled)
        ELSE IF IsPlain(o)
        THEN IF extraLen = 0
             THEN ret(pldWithOverHead, pldWithOverHead)
             ELSE IF ~SliceOK(pldWithOverHead, 0, usefulPayloadLen)
             THEN DeobfsErr("panic", peeled)
             ELSE ret(pldWithOverHead, Slice(pldWithOverHead, 0, usefulPayloadLen))
        ELSE IF OpenErr(o, header, pldWithOverHead) # "nil"
        THEN DeobfsErr(OpenErr(o, header, pldWithOverHead), peeled)
        ELSE IF ~SliceOK(pldWithOverHead, Len(pldWithOverHead) - Overhead,
                         Len(pldWithOverHead))
        THEN DeobfsErr("panic", peeled)
        ELSE \* Open decrypts into pldWithOverHead[:0]: the plaintext replaces the
             \* ciphertext in place, the tag bytes stay where they are
             LET opened == OpenPlain(o.payloadCipher, AeadNonce(header), pldWithOverHead)
                           \o Slice(pldWithOverHead, Len(pldWithOverHead) - Overhead,
                                    Len(pldWithOverHead))
             IN  IF ~SliceOK(opened, 0, usefulPayloadLen)
                 THEN DeobfsErr("panic", header \o opened)
                 ELSE ret(opened, Slice(opened, 0, usefulPayloadLen))

\* Deobfs(in): the returned err and Frame, and the working copy peeled
Deobfs(o, in) ==
    LET rlLen == RlLen(o.hasRecordLayer)
    IN  IF Len(in) < MinInputLen(rlLen)
        THEN DeobfsErr("Input cannot be shorter", <<>>)
        ELSE IF ~SliceOK(in, rlLen, Len(in))
        THEN DeobfsErr("panic", <<>>)
        ELSE LET peeled == Slice(in, rlLen, Len(in))
             IN  IF ~(/\ SliceOK(peeled, 0, HEADER_LEN)
                      /\ SliceOK(peeled, HEADER_LEN, Len(peeled))
                      /\ SliceOK(peeled, Len(peeled) - 8, Len(peeled)))
                 THEN DeobfsErr("panic", peeled)
                 ELSE LET nonce == Slice(peeled, Len(peeled) - 8, Len(peeled))
                      IN  Bind(XORKeyStream(Slice(peeled, 0, HEADER_LEN),
                                            nonce, o.salsaKey),
                               LAMBDA header :
                                 DeobfsPayload(o, header,
                                               Slice(peeled, HEADER_LEN, Len(peeled))))

----------------------------------------------------------------------------
(* Inputs                                                                  *)

Methods == {E_METHOD_PLAIN, E_METHOD_AES_GCM, E_METHOD_CHACHA20_POLY1305, 3}

KeyLens == {0, 16, 24, 31, 32, 33}

\* the session key of length n
KeyOfLen(n) == [i \in 1..n |-> (13 * i + 5) % 256]

\* (stream id, sequence number) pairs, the extremes of both ranges included
FrameIDs == { <<<<0, 1>>, <<0, 0, 0, 0>>>>,
              <<<<65535, 65534>>, <<65535, 32768, 1286, 65535>>>> }

\* the payload of length n
PayloadOfLen(n) == [i \in 1..n |-> (29 * i + 112) % 256]

Frames == { [StreamID |-> id[1], Seq |-> id[2], Closing |-> c,
             Payload |-> PayloadOfLen(n), nil |-> FALSE] :
               id \in FrameIDs, c \in {0, 1}, n \in 0..MaxPayloadLen }

\* payload lengths around those where 14 + len(payload) + extraLen reaches 65536
BigPayloadLens == {65520, 65521, 65522, 65523}

BigFrames == { [StreamID |-> id[1], Seq |-> id[2], Closing |-> c,
                Payload |-> PayloadOfLen(n), nil |-> FALSE] :
                  id \in FrameIDs, c \in {0, 1}, n \in BigPayloadLens }

\* outcomes of rand.Read
Rnds == {0, 1}

\* a destination buffer of n bytes, none of them a value Obfs would leave
BufOfLen(n) == [i \in 1..n |-> 238]

\* bits an observer flips
FlipBits == {0, 4}

\* the input of length n an observer makes up
InjectOfLen(n, fill) == [i \in 1..n |-> (fill + 41 * i) % 256]

InjectFills == {0, 90, 255}

NoEnc == [called |-> FALSE, bufIn |-> <<>>, buf |-> <<>>, n |-> 0,
          err |-> "nil", extraLen |-> 0]

NoDec == [called |-> FALSE, err |-> "nil", frame |-> NoFrame, peeled |-> <<>>,
          extraLen |-> 0]

NoTamper == [kind |-> "none", pos |-> 0, bit |-> 0]

RECURSIVE Pow2(_)
Pow2(n) == IF n = 0 THEN 1 ELSE 2 * Pow2(n - 1)

\* s with bit `bit` of byte s[pos] (from 0) flipped
FlipBit(s, pos, bit) ==
    [i \in 1..Len(s) |-> IF i = pos + 1 THEN Xor(s[i], Pow2(bit)) ELSE s[i]]

----------------------------------------------------------------------------
(* The state machine                                                       *)

Init ==
    /\ pc = "start"
    /\ obf = NilObf
    /\ genErr = "nil"
    /\ frame = NoFrame
    /\ enc = NoEnc
    /\ wire = <<>>
    /\ tamper = NoTamper
    /\ dec = NoDec

\* the caller builds the Obfuscator, with a method of M, and goes on only with
\* a nil error
GenerateOf(M) ==
    /\ pc = "start"
    /\ \E m \in M, n \in KeyLens, rl \in BOOLEAN :
         LET r == GenerateObfs(m, KeyOfLen(n), rl)
         IN  /\ obf' = r[1]
             /\ genErr' = r[2]
             /\ pc' = IF r[2] = "nil" /\ r[1].ok THEN "ready" ELSE "failed"
    /\ UNCHANGED <<frame, enc, wire, tamper, dec>>

Generate == GenerateOf(Methods)

\* the caller builds an Obfuscator without payload encryption
GeneratePlain == GenerateOf({E_METHOD_PLAIN})

\* the caller encodes a frame of F into a buffer
EncodeOf(F) ==
    /\ pc = "ready"
    /\ \E f \in F, rnd \in Rnds, d \in (-2)..MaxSlack :
         LET len == IF d = -2 THEN 0 ELSE UsefulLen(obf, Len(f.Payload)) + d
         IN  \E r \in {Obfs(obf, f, BufOfLen(len), rnd)} :
             /\ frame' = f
             /\ enc' = [called |-> TRUE, bufIn |-> BufOfLen(len), buf |-> r.buf,
                        n |-> r.n, err |-> r.err, extraLen |-> r.extraLen]
             /\ pc' = IF r.err = "nil" THEN "encoded" ELSE "done"
    /\ UNCHANGED <<obf, genErr, wire, tamper, dec>>

Encode == EncodeOf(Frames)

\* the caller encodes a frame that fills more than a 16-bit record
EncodeBig == EncodeOf(BigFrames)

\* the caller writes buf[:n] to the connection and lets go of the buffer
Send ==
    /\ pc = "encoded"
    /\ wire' = Slice(enc.buf, 0, enc.n)
    /\ enc' = NoEnc
    /\ pc' = "sent"
    /\ UNCHANGED <<obf, genErr, frame, tamper, dec>>

\* an observer flips one bit of the message
Flip ==
    /\ pc = "sent"
    /\ tamper.kind = "none"
    /\ \E pos \in 0..(Len(wire) - 1), bit \in FlipBits :
         /\ wire' = FlipBit(wire, pos, bit)
         /\ tamper' = [kind |-> "flip", pos |-> pos, bit |-> bit]
    /\ UNCHANGED <<pc, obf, genErr, frame, enc, dec>>

\* an observer replaces stream id and sequence number in the obfuscated header:
\* XORing old ^ new onto the header makes it de-obfuscate to the new values
AlterID ==
    /\ pc = "sent"
    /\ tamper.kind = "none"
    /\ \E id \in FrameIDs :
         /\ id # <<frame.StreamID, frame.Seq>>
         /\ LET rlLen == RlLen(obf.hasRecordLayer)
                old   == putU32(frame.StreamID) \o putU64(frame.Seq)
                new   == putU32(id[1]) \o putU64(id[2])
                hdr   == Slice(wire, rlLen, rlLen + 12)
            IN  wire' = Overwrite(wire, rlLen, XorSeq(hdr, XorSeq(old, new)))
    /\ tamper' = [kind |-> "alter", pos |-> 0, bit |-> 0]
    /\ UNCHANGED <<pc, obf, genErr, frame, enc, dec>>

\* an observer sends bytes of its own
Inject ==
    /\ pc = "ready"
    /\ \E n \in 0..(RlLen(obf.hasRecordLayer) + HEADER_LEN + 8 + MaxInjectExtra),
          fill \in InjectFills :
         wire' = InjectOfLen(n, fill)
    /\ frame' = NoFrame
    /\ enc' = NoEnc
    /\ tamper' = [kind |-> "inject", pos |-> 0, bit |-> 0]
    /\ dec' = NoDec
    /\ pc' = "sent"
    /\ UNCHANGED <<obf, genErr>>

\* the receiver decodes what arrived
Decode ==
    /\ pc = "sent"
    /\ \E r \in {Deobfs(obf, wire)} :
           dec' = [called |-> TRUE, err |-> r.err, frame |-> r.frame,
                   peeled |-> r.peeled, extraLen |-> r.extraLen]
    /\ pc' = "done"
    /\ UNCHANGED <<obf, genErr, frame, enc, wire, tamper>>

\* the caller is done with the decoded frame and turns to the next one
NextFrame ==
    /\ pc = "done"
    /\ pc' = "ready"
    /\ frame' = NoFrame
    /\ enc' = NoEnc
    /\ wire' = <<>>
    /\ tamper' = NoTamper
    /\ dec' = NoDec
    /\ UNCHANGED <<obf, genErr>>

Next == Generate \/ Encode \/ Send \/ Flip \/ AlterID \/ Inject \/ Decode \/ NextFrame

Spec == Init /\ [][Next]_vars

\* the plain codec on frames beyond the range of the record layer's length field
NextBig == GeneratePlain \/ EncodeBig \/ Send \/ Decode \/ NextFrame

SpecBig == Init /\ [][NextBig]_vars

----------------------------------------------------------------------------
(* Properties                                                              *)

\* the Obfuscator in use has an AEAD payload cipher
IsAEAD == obf.ok /\ ~IsPlain(obf)

\* Deobfs has returned
Decoded == pc = "done" /\ dec.called

\* the prefix length of the Obfuscator in use
PrefixLen == IF obf.hasRecordLayer THEN 5 ELSE 0

\* the extra_len the encoder is to use for a payload of n bytes
ExpectedExtra(n) == IF IsPlain(obf) THEN (IF n < 8 THEN 8 - n ELSE 0) ELSE 16

\* C1: a frame encoded by an Obfuscator built with a 32-byte key and decoded
\* from the untouched message comes back with the same stream id, sequence
\* number, closing byte and payload, under every method and prefix setting.
C1_RoundTrip ==
    (Decoded /\ tamper.kind = "none" /\ Len(obf.sessionKey) = 32)
    => /\ dec.err = "nil"
       /\ ~dec.frame.nil
       /\ dec.frame.StreamID = frame.StreamID
       /\ dec.frame.Seq = frame.Seq
       /\ dec.frame.Closing = frame.Closing
       /\ dec.frame.Payload = frame.Payload

C1_Witness ==
    /\ Decoded /\ tamper.kind = "none" /\ Len(obf.sessionKey) = 32
    /\ obf.method = E_METHOD_CHACHA20_POLY1305 /\ obf.hasRecordLayer
    /\ Len(frame.Payload) = 3 /\ frame.Closing = 1
    /\ frame.StreamID = <<65535, 65534>>
    /\ dec.err = "nil" /\ dec.frame.Payload = frame.Payload

\* C2: GenerateObfs never returns a usable Obfuscator with a nil error for a
\* session key that is not exactly 32 bytes long.
C2_BadKeyRejected ==
    (pc # "start" /\ obf.ok /\ Len(obf.sessionKey) # 32) => genErr # "nil"

\* C3 as stated: under an AEAD, a single flipped bit anywhere in the
\* post-header region makes Deobfs fail with the AEAD's authentication error.
C3_AlwaysAuthError ==
    (Decoded /\ tamper.kind = "flip" /\ IsAEAD
       /\ tamper.pos >= PrefixLen + HEADER_LEN)
    => dec.err = "cipher: message authentication failed"

\* C3 as amended: under an AEAD, a single flipped bit anywhere in the
\* post-header region makes Deobfs fail and return no frame; the error is the
\* authentication error when the bit lies before the last 8 bytes, and the
\* authentication error or the extra-length error when it lies in the last 8
\* bytes, the nonce of the header obfuscation.
C3_TamperDetected ==
    (Decoded /\ tamper.kind = "flip" /\ IsAEAD
       /\ tamper.pos >= PrefixLen + HEADER_LEN)
    => /\ dec.frame.nil
       /\ dec.err \in {"cipher: message authentication failed",
                       "extra length is greater than total pldWithOverHead length"}
       /\ tamper.pos < Len(wire) - 8
            => dec.err = "cipher: message authentication failed"

C3_Witness ==
    /\ Decoded /\ tamper.kind = "flip" /\ IsAEAD
    /\ tamper.pos >= Len(wire) - 8
    /\ dec.err = "extra length is greater than total pldWithOverHead length"

\* C4: under an AEAD, after an observer flipped a bit of the wire byte that
\* carries the closing flag (header byte 12), Deobfs fails or returns the
\* closing value that was encoded.
C4_ClosingProtected ==
    (Decoded /\ tamper.kind = "flip" /\ IsAEAD
       /\ tamper.pos = PrefixLen + 12 /\ dec.err = "nil")
    => dec.frame.Closing = frame.Closing

\* C5: under an AEAD, after stream id or sequence number were replaced in the
\* header, consistently with the obfuscation, Deobfs fails with the
\* authentication error and returns no frame.
C5_NonceBinding ==
    (Decoded /\ tamper.kind = "alter" /\ IsAEAD)
    => /\ dec.err = "cipher: message authentication failed"
       /\ dec.frame.nil

C5_Witness ==
    /\ Decoded /\ tamper.kind = "alter" /\ IsAEAD
    /\ dec.err = "cipher: message authentication failed"
    /\ Slice(dec.peeled, 0, 12) # putU32(frame.StreamID) \o putU64(frame.Seq)
    /\ \E id \in FrameIDs : Slice(dec.peeled, 0, 12) = putU32(id[1]) \o putU64(id[2])
    /\ dec.peeled[13] = frame.Closing
    /\ dec.peeled[14] = 16

\* C6: with a buffer shorter than useful_len = prefix_len + 14 + len(payload) +
\* extra_len, Obfs returns the buffer-too-small error and 0 and leaves the
\* buffer as it was; with a buffer at least that long it returns useful_len
\* and changes no byte from index useful_len on.
C6_BufferTooSmall ==
    enc.called =>
      LET usefulLen == PrefixLen + 14 + Len(frame.Payload)
                         + ExpectedExtra(Len(frame.Payload))
      IN  /\ Len(enc.buf) = Len(enc.bufIn)
          /\ Len(enc.bufIn) < usefulLen
               => /\ enc.err = "buffer is too small"
                  /\ enc.n = 0
                  /\ enc.buf = enc.bufIn
          /\ Len(enc.bufIn) >= usefulLen
               => /\ enc.err = "nil"
                  /\ enc.n = usefulLen
                  /\ \A i \in (usefulLen + 1)..Len(enc.bufIn) : enc.buf[i] = enc.bufIn[i]

C6_Witness ==
    /\ enc.called /\ enc.err = "buffer is too small" /\ enc.buf = enc.bufIn
    /\ obf.hasRecordLayer /\ IsAEAD
    /\ Len(enc.bufIn) > 0
    /\ Len(enc.bufIn) = 5 + 14 + Len(frame.Payload) + 16 - 1

\* C7: Deobfs never indexes out of range, and an input shorter than
\* prefix_len + 22 bytes gets the length error and no frame.
C7_ShortInput ==
    Decoded
    => /\ dec.err # "panic"
       /\ Len(wire) < PrefixLen + 22
            => dec.err = "Input cannot be shorter" /\ dec.frame.nil

C7_Witness ==
    /\ Decoded /\ tamper.kind = "inject" /\ obf.hasRecordLayer
    /\ Len(wire) = 5 + 21
    /\ dec.err = "Input cannot be shorter" /\ dec.frame.nil

\* C8: under the plain method Obfs uses extra_len = 8 - len(payload) for
\* payloads of 0..7 bytes and 0 from 8 bytes on, so that at least 8 bytes
\* follow the header, and Deobfs of the message finds that extra_len and
\* returns the payload without the padding.
C8_PlainPadding ==
    /\ (enc.called /\ IsPlain(obf)
          /\ Len(enc.bufIn) >= PrefixLen + 14 + Len(frame.Payload)
                                 + ExpectedExtra(Len(frame.Payload)))
       => /\ enc.err = "nil"
          /\ enc.extraLen = ExpectedExtra(Len(frame.Payload))
          /\ enc.n - PrefixLen - 14 = Len(frame.Payload) + enc.extraLen
          /\ enc.n - PrefixLen - 14 >= 8
    /\ (Decoded /\ tamper.kind = "none" /\ obf.ok /\ IsPlain(obf))
       => /\ dec.err = "nil"
          /\ dec.extraLen = ExpectedExtra(Len(frame.Payload))
          /\ Len(wire) - PrefixLen - 14 >= 8
          /\ dec.frame.Payload = frame.Payload

C8_Witness ==
    /\ Decoded /\ tamper.kind = "none" /\ obf.ok /\ IsPlain(obf)
    /\ Len(frame.Payload) = 3
    /\ dec.extraLen = 5
    /\ Len(wire) = PrefixLen + 14 + 8
    /\ dec.frame.Payload = frame.Payload

\* C9: with the prefix enabled, the first 5 bytes Obfs writes are 0x17 0x03
\* 0x03 and a big-endian length equal to the number of bytes after the prefix,
\* the returned length minus 5.
C9_RecordLength ==
    (enc.called /\ enc.err = "nil" /\ obf.hasRecordLayer)
    => /\ SubSeq(enc.buf, 1, 3) = <<23, 3, 3>>
       /\ enc.buf[4] * 256 + enc.buf[5] = enc.n - 5

\* C10: under an AEAD, whenever Deobfs succeeds the de-obfuscated extra_len is
\* the cipher overhead and the returned payload is the opened plaintext, of
\* length len(post-header region) - 16.
C10_PayloadIsOpened ==
    (Decoded /\ IsAEAD /\ dec.err = "nil")
    => /\ dec.extraLen = 16
       /\ Len(dec.frame.Payload) = Len(wire) - PrefixLen - 14 - 16

=============================================================================
